---- MODULE Spec2Model ----
(***************************************************************************)
(* Model of src/app.py, the "Dynamic Rule-Based Data Verification" page.   *)
(*                                                                         *)
(* The page is a script that is run again from the top on every user      *)
(* interaction (an upload, a click).  One run goes through the blocks of   *)
(* the script in order; the variable pc is the block the run is at.        *)
(*                                                                         *)
(* Strings are sequences of one-character strings, so that str.strip,      *)
(* str.lower, str.endswith, the `in` substring test and the [:31] slice    *)
(* are computed, not assumed.                                              *)
(***************************************************************************)
EXTENDS Integers, Sequences, FiniteSets, TLC

VARIABLES
    pc,              \* block of the script the current run is at; "done" = run ended
    runs,            \* number of script runs started so far
    rules_file,      \* the uploaded rules file (widget value), or NoFile
    data_file,       \* the uploaded data file (widget value), or NoFile
    run_button,      \* TRUE in the run started by a click on "Run validation"
    disk,            \* temporary files that exist on disk
    tmp,             \* temporary file created by the current run, or NoTmp
    rules_temp_path, \* as in the script
    rules_module,    \* as in the script (NoModule = None)
    dataPos,         \* read position of the uploaded data stream
    outcome,         \* what the call of check_rules did (raised / returned), or NotCalled
    callPos,         \* read position of the data stream when check_rules was called
    results,         \* as in the script
    ui,              \* elements rendered by the current run
    summary_df,      \* the sorted summary table
    metrics,         \* the three st.metric values
    tabs,            \* what each per-sheet tab shows
    export,          \* sheets of the workbook written by the export block
    df,              \* table handed to count_findings_in_df / the row filter
    findings,        \* value returned by count_findings_in_df(df)
    show_only,       \* the "Show only rows with findings" checkbox
    display_df,      \* rows the tab displays
    tstep            \* step of the table-level specification

appVars == <<pc, runs, rules_file, data_file, run_button, disk, tmp, rules_temp_path,
             rules_module, dataPos, outcome, callPos, results, ui, summary_df, metrics, tabs,
             export>>
tableVars == <<df, findings, show_only, display_df, tstep>>
vars == <<pc, runs, rules_file, data_file, run_button, disk, tmp, rules_temp_path,
          rules_module, dataPos, outcome, callPos, results, ui, summary_df, metrics, tabs,
          export, df, findings, show_only, display_df, tstep>>

---------------------------------------------------------------------------
(* Bounds of the model *)

MaxRows == 2       \* rows of a table in the table-level specification
MaxRuns == 3       \* script runs in one behaviour
MaxDataLen == 1    \* length of the uploaded data stream
MaxEntries == 2    \* entries of a mapping returned by check_rules

---------------------------------------------------------------------------
(* Strings *)

UpperChars == <<"A","B","C","D","E","F","G","H","I","J","K","L","M",
                "N","O","P","Q","R","S","T","U","V","W","X","Y","Z">>
LowerChars == <<"a","b","c","d","e","f","g","h","i","j","k","l","m",
                "n","o","p","q","r","s","t","u","v","w","x","y","z">>

\* str.lower()
Lower(s) ==
    [i \in 1..Len(s) |->
        IF \E k \in 1..Len(UpperChars) : UpperChars[k] = s[i]
        THEN LowerChars[CHOOSE k \in 1..Len(UpperChars) : UpperChars[k] = s[i]]
        ELSE s[i]]

\* sub in s
Contains(sub, s) ==
    \E i \in 0..(Len(s) - Len(sub)) : SubSeq(s, i + 1, i + Len(sub)) = sub

\* s.endswith(suf)
EndsWith(s, suf) ==
    /\ Len(suf) <= Len(s)
    /\ SubSeq(s, Len(s) - Len(suf) + 1, Len(s)) = suf

IsSpace(c) == c \in {" ", "\t", "\n"}

RECURSIVE LStrip(_)
LStrip(s) == IF s # <<>> /\ IsSpace(Head(s)) THEN LStrip(Tail(s)) ELSE s

RECURSIVE RStrip(_)
RStrip(s) ==
    IF s # <<>> /\ IsSpace(s[Len(s)]) THEN RStrip(SubSeq(s, 1, Len(s) - 1)) ELSE s

\* str.strip()
Strip(s) == RStrip(LStrip(s))

\* A missing cell value (NaN / None); no string is this sequence.
NaN == <<"<NaN>">>

\* Series.astype(str) on one cell: a missing value becomes the text "nan"
AsTypeStr(v) == IF v = NaN THEN <<"n","a","n">> ELSE v

S_Comment == <<"C","o","m","m","e","n","t">>
S_comment == <<"c","o","m","m","e","n","t">>
S_Error == <<"E","r","r","o","r">>
S_RowError == <<"R","o","w">> \o S_Error
S_error == <<"e","r","r","o","r">>
S_Duplicate == <<"D","u","p","l","i","c","a","t","e">>
S_check == <<"_","c","h","e","c","k">>
S_Age_CHECK == <<"A","g","e","_","C","H","E","C","K">>
S_checked == S_check \o <<"e","d">>
S_Name == <<"N","a","m","e">>
S_Validation == <<"V","a","l","i","d","a","t","i","o","n">>

---------------------------------------------------------------------------
(* Tables (pandas DataFrames): ordered named columns, rows of cells *)

Table(cols, rows) == [type |-> "df", cols |-> cols, rows |-> rows]

HasCol(t, c) == \E j \in 1..Len(t.cols) : t.cols[j] = c
ColIndex(t, c) == CHOOSE j \in 1..Len(t.cols) : t.cols[j] = c

\* DataFrame.empty: some axis has length 0
IsEmptyDf(t) == Len(t.cols) = 0 \/ Len(t.rows) = 0

\* the cell test both blocks use: astype(str), strip, compare with ""
CellNonEmpty(v) == Strip(AsTypeStr(v)) # <<>>

\* [c for c in df.columns if ("Error" in c or "Duplicate" in c
\*                            or c.lower().endswith("_check"))]
IsErrorCol(c) ==
    \/ Contains(S_Error, c)
    \/ Contains(S_Duplicate, c)
    \/ EndsWith(Lower(c), S_check)

error_cols(t) == {j \in 1..Len(t.cols) : IsErrorCol(t.cols[j])}

\* def count_findings_in_df(df)
count_findings_in_df(t) ==
    IF t.type # "df" \/ IsEmptyDf(t) THEN 0
    ELSE IF HasCol(t, S_Comment)
    THEN Cardinality({i \in 1..Len(t.rows) :
                        CellNonEmpty(t.rows[i][ColIndex(t, S_Comment)])})
    ELSE IF error_cols(t) = {} THEN 0
    ELSE Cardinality({i \in 1..Len(t.rows) :
                        \E j \in error_cols(t) : CellNonEmpty(t.rows[i][j])})

\* boolean row selection df[mask]: the rows whose index is in keep, in order
RECURSIVE SelectRows(_, _, _)
SelectRows(rows, keep, i) ==
    IF i > Len(rows) THEN <<>>
    ELSE (IF i \in keep THEN <<rows[i]>> ELSE <<>>) \o SelectRows(rows, keep, i + 1)

\* a variant of the filter whose cell test forgets .str.strip()
DisplayRows_noStrip(t, flag) ==
    IF ~flag THEN t.rows
    ELSE IF HasCol(t, S_Comment)
    THEN SelectRows(t.rows,
                    {i \in 1..Len(t.rows) :
                        AsTypeStr(t.rows[i][ColIndex(t, S_Comment)]) # <<>>}, 1)
    ELSE IF error_cols(t) # {}
    THEN SelectRows(t.rows,
                    {i \in 1..Len(t.rows) :
                        \E j \in error_cols(t) : AsTypeStr(t.rows[i][j]) # <<>>}, 1)
    ELSE <<>>

\* the rows a tab displays (display_df)
DisplayRows(t, flag) ==
    IF ~flag THEN t.rows
    ELSE IF HasCol(t, S_Comment)
    THEN SelectRows(t.rows,
                    {i \in 1..Len(t.rows) :
                        CellNonEmpty(t.rows[i][ColIndex(t, S_Comment)])}, 1)
    ELSE IF error_cols(t) # {}
    THEN SelectRows(t.rows,
                    {i \in 1..Len(t.rows) :
                        \E j \in error_cols(t) : CellNonEmpty(t.rows[i][j])}, 1)
    ELSE <<>>

---------------------------------------------------------------------------
(* Table-level specification: count_findings_in_df and the row filter     *)
(* applied to every table within the bounds                                *)

Cells == {NaN, <<>>, <<" ">>, <<" ", "x">>}

Schemas ==
    { <<>>,
      <<S_Comment>>, <<S_Name>>, <<S_Error>>,
      <<S_Comment, S_Error>>,
      <<S_Age_CHECK, S_Comment>>,
      <<S_Name, S_Age_CHECK>>,
      <<S_RowError, S_Duplicate>>,
      <<S_error, S_comment>>,
      <<S_Name, S_checked>> }

RowSeqs(w) == UNION {[1..n -> [1..w -> Cells]] : n \in 0..MaxRows}

Tables == UNION {{Table(c, r) : r \in RowSeqs(Len(c))} : c \in Schemas}

---------------------------------------------------------------------------
(* Values of the page script *)

PyNone == [type |-> "none"]              \* Python None
NoFile == [type |-> "nofile"]            \* a file_uploader with no file
NoTmp == 0
NotCalled == [type |-> "notcalled"]
Nothing == [type |-> "nothing"]          \* a rendered element without a value

\* Rules files: whether the script imports, and what its check_rules is
RulesFiles ==
    { [type |-> "py", compiles |-> FALSE, entry |-> "absent"] }
    \cup { [type |-> "py", compiles |-> TRUE, entry |-> e] :
                e \in {"callable", "notcallable", "absent"} }

\* Data files: CSV or workbook, MaxDataLen bytes long, parseable or not
DataFiles ==
    { [type |-> k, len |-> MaxDataLen, valid |-> v] :
        k \in {"csv", "xlsx"}, v \in BOOLEAN }

\* Sheet names a rules file may use as keys of its mapping
Pad31 == [i \in 1..31 |-> "A"]
N_Dates == <<"D","a","t","e","s">>
N_LongX == Pad31 \o <<"x">>
N_LongY == Pad31 \o <<"y">>
N_lowX == Lower(N_LongX)
SheetNames == {N_Dates, N_LongX, N_LongY, N_lowX}

\* Tables and other values a rules file may return
T_Comment == Table(<<S_Name, S_Comment>>, << <<<<"x">>, <<"x">>>>, <<<<"x">>, <<" ">>>> >>)
T_Plain == Table(<<S_Name>>, << <<<<"x">>>> >>)
IntVal == [type |-> "int", v |-> 42]
ListVal == [type |-> "list", v |-> 0]
Raised == [type |-> "exc", msg |-> "boom"]
EntryValues == {T_Comment, IntVal}

Dict(items) == [type |-> "dict", items |-> items]

Distinct(items) ==
    \A i, j \in 1..Len(items) : i # j => items[i].name # items[j].name

DictValues ==
    { Dict(items) : items \in
        { s \in UNION {[1..n -> [name : SheetNames, value : EntryValues]] :
                            n \in 0..MaxEntries} : Distinct(s) } }

\* Everything a call of check_rules may do
Outcomes == {Raised, PyNone, IntVal, ListVal, T_Comment, T_Plain} \cup DictValues

Element(kind, payload) == [kind |-> kind, payload |-> payload]
Shown(kind) == \E e \in ui : e.kind = kind

NoMetrics == [sheets |-> -1, rows |-> -1, findings |-> -1]
NoExport == [written |-> FALSE, failed |-> FALSE, sheets |-> <<>>, download |-> FALSE]

---------------------------------------------------------------------------
(* Initial state: the page with nothing uploaded *)

AppIdle ==
    /\ pc = "done"
    /\ runs = 0
    /\ rules_file = NoFile
    /\ data_file = NoFile
    /\ run_button = FALSE
    /\ disk = {}
    /\ tmp = NoTmp
    /\ rules_temp_path = NoTmp
    /\ rules_module = PyNone
    /\ dataPos = 0
    /\ outcome = NotCalled
    /\ callPos = 0
    /\ results = PyNone
    /\ ui = {}
    /\ summary_df = <<>>
    /\ metrics = NoMetrics
    /\ tabs = <<>>
    /\ export = NoExport

TableIdle ==
    /\ df = Table(<<>>, <<>>)
    /\ findings = 0
    /\ show_only = FALSE
    /\ display_df = <<>>
    /\ tstep = "none"

Init == AppIdle /\ TableIdle

---------------------------------------------------------------------------
(* User interactions: each one makes the script run again from the top *)

\* A new run of the script: the widgets keep their values, everything the
\* script computes starts over.  Temporary files of earlier runs stay where
\* they are.  pos is the read position of the data stream the run starts with.
StartRun(rf, dfile, btn, pos) ==
    /\ pc = "done"
    /\ runs < MaxRuns
    /\ pc' = "load"
    /\ runs' = runs + 1
    /\ rules_file' = rf
    /\ data_file' = dfile
    /\ run_button' = btn
    /\ tmp' = NoTmp
    /\ rules_temp_path' = NoTmp
    /\ rules_module' = PyNone
    /\ dataPos' = pos
    /\ outcome' = NotCalled
    /\ callPos' = 0
    /\ results' = PyNone
    /\ ui' = {}
    /\ summary_df' = <<>>
    /\ metrics' = NoMetrics
    /\ tabs' = <<>>
    /\ export' = NoExport
    /\ UNCHANGED <<disk, tableVars>>

\* The stream of a file that stays uploaded is either the same object (its
\* position is kept) or a fresh one over the same bytes, as the framework does
KeptPos == {dataPos, 0}

UploadRules(s) ==
    \E pos \in KeptPos : StartRun(s, data_file, FALSE, pos)

\* type=["xlsx", "csv"]; a newly uploaded stream is at its start
UploadData(d) ==
    /\ d.type \in {"csv", "xlsx"}
    /\ StartRun(rules_file, d, FALSE, 0)

\* the button exists only in a run that rendered it
ClickRun ==
    /\ Shown("run_button")
    /\ \E pos \in KeptPos : StartRun(rules_file, data_file, TRUE, pos)

---------------------------------------------------------------------------
(* Rules file load block *)

\* os.unlink(path) inside try/except: unlink(None) raises and is swallowed
Unlink(files, path) == IF path = NoTmp THEN files ELSE files \ {path}

LoadedModule(f) == [type |-> "module", entry |-> f.entry]

LoadRules ==
    /\ pc = "load"
    /\ pc' = "preview"
    /\ IF rules_file = NoFile
       THEN UNCHANGED <<disk, tmp, rules_temp_path, rules_module, ui>>
       ELSE \E writeFails \in BOOLEAN :
            \* NamedTemporaryFile(delete=False): a fresh file, named after the run
            /\ tmp' = runs
            /\ IF writeFails
               THEN \* tmp.write / flush raised: rules_temp_path is still None
                    /\ rules_temp_path' = NoTmp
                    /\ rules_module' = PyNone
                    /\ ui' = ui \cup {Element("load_failed", Nothing)}
                    /\ disk' = Unlink(disk \cup {runs}, NoTmp)
               ELSE IF ~rules_file.compiles
               THEN \* exec_module raised
                    /\ rules_temp_path' = runs
                    /\ rules_module' = PyNone
                    /\ ui' = ui \cup {Element("load_failed", Nothing)}
                    /\ disk' = Unlink(disk \cup {runs}, runs)
               ELSE /\ rules_temp_path' = runs
                    /\ rules_module' = LoadedModule(rules_file)
                    /\ ui' = ui \cup {Element("rules_loaded", Nothing)}
                    /\ disk' = disk \cup {runs}
    /\ UNCHANGED <<runs, rules_file, data_file, run_button, dataPos, outcome, callPos,
                   results, summary_df, metrics, tabs, export, tableVars>>

---------------------------------------------------------------------------
(* Preview block *)

\* Where reading the whole upload leaves the stream: read_csv reads to the
\* end; the workbook reader seeks inside the archive and stops somewhere
\* past the start; a failed read may stop anywhere
PositionsAfterRead(f) ==
    IF ~f.valid THEN 0..f.len
    ELSE IF f.type = "csv" THEN {f.len}
    ELSE 1..f.len

Preview ==
    /\ pc = "preview"
    /\ IF data_file # NoFile /\ rules_module # PyNone
       THEN /\ pc' = "validate"
            /\ \E p \in PositionsAfterRead(data_file) : dataPos' = p
            /\ ui' = ui \cup {Element(IF data_file.valid THEN "preview"
                                                        ELSE "preview_failed", Nothing)}
       ELSE /\ pc' = "done"
            /\ UNCHANGED <<dataPos, ui>>
    /\ UNCHANGED <<runs, rules_file, data_file, run_button, disk, tmp, rules_temp_path,
                   rules_module, outcome, callPos, results, summary_df, metrics, tabs,
                   export, tableVars>>

---------------------------------------------------------------------------
(* Presence of check_rules, and the button *)

\* a variant that tests hasattr only
HasCallableCheckRules_attrOnly(m) == m.entry # "absent"

\* hasattr(rules_module, "check_rules") and callable(rules_module.check_rules)
HasCallableCheckRules(m) == m.entry = "callable"

Validate ==
    /\ pc = "validate"
    /\ IF ~HasCallableCheckRules(rules_module)
       THEN /\ ui' = ui \cup {Element("no_check_rules", Nothing)}
            /\ pc' = "done"
       ELSE /\ ui' = ui \cup {Element("run_button", Nothing)}
            /\ pc' = IF run_button THEN "invoke" ELSE "done"
    /\ UNCHANGED <<runs, rules_file, data_file, run_button, disk, tmp, rules_temp_path,
                   rules_module, dataPos, outcome, callPos, results, summary_df, metrics,
                   tabs, export, tableVars>>

---------------------------------------------------------------------------
(* Run validation block *)

\* What rules_module.check_rules(data_file) may do; calling a member that is
\* absent or not callable raises inside the try
CallOutcomes(m) == IF m.entry = "callable" THEN Outcomes ELSE {Raised}

\* a variant whose except clause does not match what was raised
Caught_narrow(out) == FALSE

\* except Exception as e
Caught(out) == out.type = "exc"

\* what the try/except renders for the outcome of the call
CallReport(out) ==
    IF out.type = "exc" THEN {Element("error_running_rules", out)} ELSE {}

\* the value of results after the try/except
ResultsAfterCall(out) == IF out.type = "exc" THEN PyNone ELSE out

Invoke ==
    /\ pc = "invoke"
    /\ \E out \in CallOutcomes(rules_module) :
        /\ outcome' = out
        /\ callPos' = dataPos
        /\ IF out.type = "exc" /\ ~Caught(out)
           THEN /\ pc' = "aborted"
                /\ UNCHANGED <<ui, results>>
           ELSE /\ pc' = "classify"
                /\ ui' = ui \cup CallReport(out)
                /\ results' = ResultsAfterCall(out)
    /\ UNCHANGED <<runs, rules_file, data_file, run_button, disk, tmp, rules_temp_path,
                   rules_module, dataPos, summary_df, metrics, tabs, export, tableVars>>

---------------------------------------------------------------------------
(* Result classification block *)

\* results after the isinstance chain
NormalizeResults(r) ==
    IF r.type = "df" THEN Dict(<< [name |-> S_Validation, value |-> r] >>)
    ELSE IF r.type # "dict" THEN PyNone
    ELSE r

\* a variant that renders the caption and forgets the value
ClassifyReport_noValue(r) ==
    IF r.type \notin {"df", "dict"}
    THEN {Element("results_not_df_or_dict", Nothing)}
    ELSE {}

\* what the isinstance chain renders: the caption and the raw value
ClassifyReport(r) ==
    IF r.type \notin {"df", "dict"}
    THEN {Element("results_not_df_or_dict", Nothing), Element("raw_value", r)}
    ELSE {}

\* if results:
Truthy(r) == r # PyNone /\ ~(r.type = "dict" /\ r.items = <<>>)

Classify ==
    /\ pc = "classify"
    /\ IF results = PyNone
       THEN /\ ui' = ui \cup {Element("no_results_returned", Nothing)}
            /\ pc' = "done"
            /\ UNCHANGED results
       ELSE /\ ui' = ui \cup ClassifyReport(results)
            /\ results' = NormalizeResults(results)
            /\ pc' = IF Truthy(NormalizeResults(results)) THEN "summary" ELSE "done"
    /\ UNCHANGED <<runs, rules_file, data_file, run_button, disk, tmp, rules_temp_path,
                   rules_module, dataPos, outcome, callPos, summary_df, metrics, tabs,
                   export, tableVars>>

---------------------------------------------------------------------------
(* Summary and aggregate metrics *)

IsDf(v) == v.type = "df"

\* one summary_rows.append(...)
SummaryRow(it) ==
    [Sheet |-> it.name,
     TotalRows |-> IF IsDf(it.value) THEN Len(it.value.rows) ELSE 0,
     Findings |-> IF IsDf(it.value) THEN count_findings_in_df(it.value) ELSE 0]

Injective(f, n) == \A i, j \in 1..n : i # j => f[i] # f[j]

\* sort_values(by="Findings", ascending=False): some descending order of the
\* rows; the order of rows with equal Findings is the sort algorithm's
SortedByFindings(rows) ==
    { [i \in 1..Len(rows) |-> rows[f[i]]] :
        f \in { g \in [1..Len(rows) -> 1..Len(rows)] :
                  /\ Injective(g, Len(rows))
                  /\ \A i, j \in 1..Len(rows) :
                        i < j => rows[g[i]].Findings >= rows[g[j]].Findings } }

RECURSIVE ColumnSum(_, _, _)
ColumnSum(rows, col, i) ==
    IF i > Len(rows) THEN 0 ELSE rows[i][col] + ColumnSum(rows, col, i + 1)

\* a variant that sums the wrong column for the findings
Metrics_wrongColumn(sdf) ==
    [sheets |-> Len(sdf),
     rows |-> ColumnSum(sdf, "TotalRows", 1),
     findings |-> ColumnSum(sdf, "TotalRows", 1)]

\* the three st.metric values
Metrics(sdf) ==
    [sheets |-> Len(sdf),
     rows |-> ColumnSum(sdf, "TotalRows", 1),
     findings |-> ColumnSum(sdf, "Findings", 1)]

Summary ==
    /\ pc = "summary"
    /\ \E sdf \in SortedByFindings([i \in 1..Len(results.items) |->
                                        SummaryRow(results.items[i])]) :
        /\ summary_df' = sdf
        /\ metrics' = Metrics(sdf)
    /\ ui' = ui \cup {Element("summary", Nothing)}
    /\ pc' = "tabs"
    /\ UNCHANGED <<runs, rules_file, data_file, run_button, disk, tmp, rules_temp_path,
                   rules_module, dataPos, outcome, callPos, results, tabs, export,
                   tableVars>>

---------------------------------------------------------------------------
(* Per-sheet tabs *)

\* what one tab shows; flag is the value of its checkbox
TabOf(it, flag) ==
    IF IsDf(it.value)
    THEN [name |-> it.name, tabular |-> TRUE,
          rows |-> Len(it.value.rows),
          findings |-> count_findings_in_df(it.value),
          show_only |-> flag,
          display |-> DisplayRows(it.value, flag),
          value |-> it.value]
    ELSE [name |-> it.name, tabular |-> FALSE, rows |-> 0, findings |-> 0,
          show_only |-> FALSE, display |-> <<>>, value |-> it.value]

Tabs ==
    /\ pc = "tabs"
    /\ \E flags \in [1..Len(results.items) -> BOOLEAN] :
        tabs' = [i \in 1..Len(results.items) |-> TabOf(results.items[i], flags[i])]
    /\ pc' = "export"
    /\ UNCHANGED <<runs, rules_file, data_file, run_button, disk, tmp, rules_temp_path,
                   rules_module, dataPos, outcome, callPos, results, ui, summary_df,
                   metrics, export, tableVars>>

---------------------------------------------------------------------------
(* Multi-sheet Excel export *)

SheetNameMax == 31

\* sheet_name[:31]
Trunc31(name) ==
    SubSeq(name, 1, IF Len(name) < SheetNameMax THEN Len(name) ELSE SheetNameMax)

DigitChars == <<"0","1","2","3","4","5","6","7","8","9">>

RECURSIVE StrInt(_)
StrInt(n) ==
    IF n < 10 THEN <<DigitChars[n + 1]>>
    ELSE StrInt(n \div 10) \o <<DigitChars[(n % 10) + 1]>>

\* str(df) of a value that is not a table
StrOf(v) == IF v.type = "int" THEN StrInt(v.v) ELSE <<"?">>

S_Value == <<"V","a","l","u","e">>

\* the frame handed to to_excel for one entry
Frame(v) == IF IsDf(v) THEN v ELSE Table(<<S_Value>>, << <<StrOf(v)>> >>)

NewBook == [failed |-> FALSE, sheets |-> <<>>]

\* One to_excel(writer, sheet_name=...) on the xlsxwriter engine: the writer
\* keeps its worksheets by name and writes into the worksheet it already has
\* under that name; otherwise it adds a worksheet, which the engine refuses
\* (an exception) when the name equals an existing one up to letter case.
\* A sheet records every frame written into it, in order.
WriteSheet(book, it) ==
    LET nm == Trunc31(it.name)
        same == {k \in 1..Len(book.sheets) : book.sheets[k].name = nm}
        clash == {k \in 1..Len(book.sheets) : Lower(book.sheets[k].name) = Lower(nm)}
    IN  IF book.failed THEN book
        ELSE IF same # {}
        THEN [book EXCEPT !.sheets =
                [k \in 1..Len(book.sheets) |->
                    IF k \in same
                    THEN [book.sheets[k] EXCEPT !.writes = Append(@, Frame(it.value))]
                    ELSE book.sheets[k]]]
        ELSE IF clash # {}
        THEN [book EXCEPT !.failed = TRUE]
        ELSE [book EXCEPT !.sheets =
                Append(@, [name |-> nm, writes |-> <<Frame(it.value)>>])]

\* for sheet_name, df in results.items(): ...
RECURSIVE WriteAll(_, _, _)
WriteAll(items, i, book) ==
    IF i > Len(items) THEN book
    ELSE WriteAll(items, i + 1, WriteSheet(book, items[i]))

\* The try/except around the writer: the download button is rendered after
\* the with-block, so only when nothing raised.  writer.save() inside the
\* with-block is taken as the pandas 1.x method the script was written for
\* (it flushes the workbook and raises nothing).
ExportOf(items) ==
    LET book == WriteAll(items, 1, NewBook)
    IN  [written |-> TRUE,
         failed |-> book.failed,
         sheets |-> IF book.failed THEN <<>> ELSE book.sheets,
         download |-> ~book.failed]

Export ==
    /\ pc = "export"
    /\ export' = ExportOf(results.items)
    /\ ui' = ui \cup {Element(IF ExportOf(results.items).download
                              THEN "download_button" ELSE "export_failed", Nothing)}
    /\ pc' = "done"
    /\ UNCHANGED <<runs, rules_file, data_file, run_button, disk, tmp, rules_temp_path,
                   rules_module, dataPos, outcome, callPos, results, summary_df, metrics,
                   tabs, tableVars>>

---------------------------------------------------------------------------
(* The page *)

Next ==
    \/ \E s \in RulesFiles : UploadRules(s)
    \/ \E d \in DataFiles : UploadData(d)
    \/ ClickRun
    \/ LoadRules
    \/ Preview
    \/ Validate
    \/ Invoke
    \/ Classify
    \/ Summary
    \/ Tabs
    \/ Export

Spec == Init /\ [][Next]_vars

---------------------------------------------------------------------------
(* The table-level functions on every table within the bounds *)

TablesInit ==
    /\ AppIdle
    /\ df \in Tables
    /\ findings = 0
    /\ show_only = FALSE
    /\ display_df = <<>>
    /\ tstep = "input"

\* findings = count_findings_in_df(df)
CountFindings ==
    /\ tstep = "input"
    /\ findings' = count_findings_in_df(df)
    /\ tstep' = "counted"
    /\ UNCHANGED <<df, show_only, display_df, appVars>>

\* the tab of df with its checkbox set or not
ShowTab ==
    /\ tstep = "counted"
    /\ \E flag \in BOOLEAN :
        /\ show_only' = flag
        /\ display_df' = DisplayRows(df, flag)
    /\ tstep' = "shown"
    /\ UNCHANGED <<df, findings, appVars>>

TablesNext == CountFindings \/ ShowTab

SpecTables == TablesInit /\ [][TablesNext]_vars

---------------------------------------------------------------------------
(* Properties *)

NoTablesShown ==
    /\ summary_df = <<>>
    /\ metrics = NoMetrics
    /\ tabs = <<>>
    /\ ~Shown("summary")

NoDownload ==
    /\ ~export.written
    /\ ~export.download
    /\ ~Shown("download_button")

\* C1: in no run that has ended does the temporary file created by that run
\* still exist.
C1_TempFileDeleted == pc = "done" => (tmp = NoTmp \/ tmp \notin disk)

UnsupportedValues == {PyNone, IntVal, ListVal}

\* C3 as stated: every returned value that is neither a table nor a mapping,
\* None included, is reported as an unsupported result shape together with the
\* raw value; no table is shown, no download offered, no execution error shown.
C3_UnsupportedShapeIncludingNone ==
    (pc = "done" /\ outcome \in UnsupportedValues) =>
        /\ Shown("results_not_df_or_dict")
        /\ Element("raw_value", outcome) \in ui
        /\ ~Shown("error_running_rules")
        /\ NoTablesShown
        /\ NoDownload

\* C3 amended: a returned value other than None that is neither a table nor a
\* mapping is reported as an unsupported result shape together with the raw
\* value; a returned None gets the "No results returned." warning and no raw
\* value; in both cases no table is shown, no download is offered, and no
\* execution error is shown (which tells them from a raising check_rules).
C3_UnsupportedShape ==
    (pc = "done" /\ outcome \in UnsupportedValues) =>
        /\ IF outcome = PyNone
           THEN /\ Shown("no_results_returned")
                /\ ~Shown("results_not_df_or_dict")
                /\ ~Shown("raw_value")
           ELSE /\ Shown("results_not_df_or_dict")
                /\ Element("raw_value", outcome) \in ui
                /\ ~Shown("no_results_returned")
        /\ ~Shown("error_running_rules")
        /\ NoTablesShown
        /\ NoDownload

C3_Witness ==
    /\ pc = "done"
    /\ outcome = IntVal
    /\ Element("raw_value", IntVal) \in ui

EntryPointMissing == rules_module # PyNone /\ rules_module.entry # "callable"

\* C4 as stated: with a loaded unit that has no callable check_rules nothing is
\* invoked, summarised or exported, and every run that loaded such a unit
\* shows the missing-entry-point error.
C4_MissingEntryPointAlwaysReported ==
    EntryPointMissing =>
        /\ outcome = NotCalled
        /\ NoTablesShown
        /\ NoDownload
        /\ (pc = "done" => Shown("no_check_rules"))

\* C4 amended: with a loaded unit that has no callable check_rules nothing is
\* invoked, summarised or exported, and every run that loaded such a unit
\* while a data file is uploaded shows the missing-entry-point error.
C4_MissingEntryPoint ==
    EntryPointMissing =>
        /\ outcome = NotCalled
        /\ NoTablesShown
        /\ NoDownload
        /\ ((pc = "done" /\ data_file # NoFile) => Shown("no_check_rules"))

C4_Witness ==
    /\ pc = "done"
    /\ EntryPointMissing
    /\ data_file # NoFile
    /\ Shown("no_check_rules")

\* a value that is present and not blank: what the claims call non-empty
HoldsText(v) == v # NaN /\ Strip(v) # <<>>

\* C5: for a table with a Comment column the count is the number of rows whose
\* Comment is non-empty after stripping, a missing Comment counting as empty,
\* whatever the other columns hold.
C5_CommentCount ==
    (tstep # "input" /\ HasCol(df, S_Comment)) =>
        findings = Cardinality({i \in 1..Len(df.rows) :
                                  HoldsText(df.rows[i][ColIndex(df, S_Comment)])})

\* C6: for a table without a Comment column the count is the number of rows in
\* which some Error / Duplicate / _check column holds a value that is non-empty
\* after stripping, and 0 when there is no such column.
C6_FallbackCount ==
    (tstep # "input" /\ ~HasCol(df, S_Comment)) =>
        findings = Cardinality({i \in 1..Len(df.rows) :
                                  \E j \in 1..Len(df.cols) :
                                     /\ IsErrorCol(df.cols[j])
                                     /\ HoldsText(df.rows[i][j])})

\* the row on its own is a finding for the Summary's count
IsFindingRow(t, i) == count_findings_in_df(Table(t.cols, <<t.rows[i]>>)) = 1

\* C7: with the checkbox set a tab displays exactly the rows the Summary counts
\* as findings, in their order, so as many rows as the Findings figure; with
\* the checkbox unset it displays every row.
C7_FilterMatchesCount ==
    tstep = "shown" =>
        IF show_only
        THEN /\ display_df = SelectRows(df.rows,
                                {i \in 1..Len(df.rows) : IsFindingRow(df, i)}, 1)
             /\ Len(display_df) = findings
        ELSE display_df = df.rows

C7_Witness ==
    /\ tstep = "shown"
    /\ show_only
    /\ findings = 1
    /\ Len(df.rows) = 2
    /\ Len(display_df) = 1

\* C8: the export of a non-empty result raises nothing, offers the download,
\* and holds one sheet per entry, named by the entry's name cut to 31
\* characters and holding that entry's frame, also when names share their
\* first 31 characters.
C8_ExportOneSheetPerEntry ==
    (pc = "done" /\ results.type = "dict" /\ results.items # <<>>) =>
        /\ export.written
        /\ ~export.failed
        /\ export.download
        /\ Len(export.sheets) = Len(results.items)
        /\ \A i \in 1..Len(results.items) :
              /\ i <= Len(export.sheets)
              /\ export.sheets[i].name = Trunc31(results.items[i].name)
              /\ Len(export.sheets[i].name) <= 31
              /\ export.sheets[i].writes = <<Frame(results.items[i].value)>>

TableEntries(items) == {i \in 1..Len(items) : IsDf(items[i].value)}

RECURSIVE RowsOfTables(_, _)
RowsOfTables(items, i) ==
    IF i > Len(items) THEN 0
    ELSE (IF IsDf(items[i].value) THEN Len(items[i].value.rows) ELSE 0)
            + RowsOfTables(items, i + 1)

RECURSIVE FindingsOfTables(_, _)
FindingsOfTables(items, i) ==
    IF i > Len(items) THEN 0
    ELSE (IF IsDf(items[i].value) THEN count_findings_in_df(items[i].value) ELSE 0)
            + FindingsOfTables(items, i + 1)

SummaryShown == pc \in {"tabs", "export", "done"} /\ Shown("summary")

PerTableRows ==
    \A i \in TableEntries(results.items) :
        Cardinality({k \in 1..Len(summary_df) :
                        summary_df[k].Sheet = results.items[i].name}) = 1
        /\ \E k \in 1..Len(summary_df) :
              summary_df[k] = [Sheet |-> results.items[i].name,
                               TotalRows |-> Len(results.items[i].value.rows),
                               Findings |-> count_findings_in_df(results.items[i].value)]

\* C9 as stated: the Sheets figure is the number of entries that are tables,
\* the row and finding totals are the sums over the tables, and each table has
\* its summary row.
C9_AggregatesOverTables ==
    SummaryShown =>
        /\ metrics.sheets = Cardinality(TableEntries(results.items))
        /\ metrics.rows = RowsOfTables(results.items, 1)
        /\ metrics.findings = FindingsOfTables(results.items, 1)
        /\ PerTableRows

\* C9 amended: the Sheets figure is the number of entries of the result,
\* tables or not; the row and finding totals are the sums over the entries
\* that are tables, and each table has its summary row with its own name, row
\* count and finding count.
C9_Aggregates ==
    SummaryShown =>
        /\ metrics.sheets = Len(results.items)
        /\ metrics.rows = RowsOfTables(results.items, 1)
        /\ metrics.findings = FindingsOfTables(results.items, 1)
        /\ PerTableRows

C9_Witness ==
    /\ SummaryShown
    /\ Len(results.items) = 2
    /\ Cardinality(TableEntries(results.items)) = 1
    /\ metrics.findings = 1
    /\ metrics.rows = 2

\* C10: when check_rules is called the data stream is at its start, as it was
\* when uploaded.
C10_StreamAtStartWhenCalled == outcome # NotCalled => callPos = 0

====
